---- MODULE Spec2Model ----
(***************************************************************************)
(* PyPoE GGPK reader (PyPoE/poe/file/ggpk.py): the record scan             *)
(* (GGPKFile._read / _read_record and the four record decoders), the tree  *)
(* builder (GGPKFile.directory_build) and the DirectoryNode navigation     *)
(* (__getitem__, _get_name, search, get_parent).                           *)
(*                                                                         *)
(* A byte stream is modelled by the record images laid in it: each image   *)
(* has the fields the decoder reads (declared length, tag, name, child     *)
(* offsets or entries) and the number of bytes it occupies. The decoder's  *)
(* cursor arithmetic is the code's, byte for byte; the content of hash,    *)
(* payload and filler bytes is not modelled. The buffer is an in-memory    *)
(* io.BytesIO: a read past the end returns the bytes that are left, a seek *)
(* past the end is allowed, a relative seek before the start stops at 0.   *)
(* Strings are sequences of one-character strings.                         *)
(***************************************************************************)
EXTENDS Integers, Sequences, FiniteSets, TLC

VARIABLES
    buffer,     \* the byte source handed to read(): [size, imgs]
    pc,         \* where the container is in its life cycle
    offset,     \* _read: the local `offset` (the cursor after the last record)
    recs,       \* _read: the local `records` dict being filled
    records,    \* GGPKFile.records
    error,      \* the exception the last failed call raised, or "none"
    directory,  \* GGPKFile.directory: a node id, or NoNode for None
    nodes,      \* the DirectoryNode objects, by id (creation order)
    l,          \* directory_build: the work list `l`
    call        \* the last navigation call and what it returned

vars == <<buffer, pc, offset, recs, records, error, directory, nodes, l, call>>

-----------------------------------------------------------------------------
(* Bounds of the model.                                                    *)

\* Images of a stream that varies lengths and truncation.
MaxScan == 2
\* Records after the GGPK record in a stream that varies references.
MaxRec == 2
\* Records after the GGPK record in a stream that varies names.
MaxTree == 3
\* Child offsets of the GGPK record, entries of one directory record.
MaxEntries == 2
\* Entries of all directory records of one stream together.
MaxRefs == 2
\* DirectoryNode objects one build may create before the model stops it.
MaxNodes == 5

-----------------------------------------------------------------------------
(* Layout constants of the format, as the decoders use them.               *)

\* length (4) + tag (4), _read_record
HeaderBytes == 8
\* one child offset of the GGPK record, struct '<q'
OffsetBytes == 8
\* one directory entry: hash '<I' (4) + offset '<q' (8)
EntryBytes == 12
\* the 32 byte content hash of PDIR and FILE records
HashBytes == 32
\* FileRecord.read: data_length = length - 44 - 2 * name_length
FileFixedBytes == 44
\* FreeRecord.read: seek(length - 16)
FreeFixedBytes == 16

Min(a, b) == IF a < b THEN a ELSE b
Max(a, b) == IF a > b THEN a ELSE b

NoNode == 0
NoHash == 0 - 1
EmptyMap == [k \in {} |-> k]

Tags == {"GGPK", "PDIR", "FILE", "FREE"}

-----------------------------------------------------------------------------
(* Byte streams.                                                           *)
(*                                                                         *)
(* A shape is what a writer puts down for one image:                       *)
(*   tag   the 4 byte tag ("JUNK" stands for any tag that is none of the   *)
(*         four),                                                          *)
(*   name  the name (PDIR, FILE),                                          *)
(*   refs  the images referenced, by index in the stream (GGPK child       *)
(*         offsets, PDIR entries); an index past the last image is an      *)
(*         offset at which no record starts,                               *)
(*   extra GGPK, PDIR: declared length minus the bytes the fields take;    *)
(*         FILE: the declared payload size (length - 44 - 2*name_length);  *)
(*         FREE: the declared filler size (length - 16).                   *)

\* name_length counts UTF-16 code units with the terminator (_set_name).
NameLength(name) == Len(name) + 1

\* The bytes the fields of an image take, as the decoders walk them.
FieldBytes(s) ==
    CASE s.tag = "GGPK" -> HeaderBytes + 4 + OffsetBytes * Len(s.refs)
      [] s.tag = "PDIR" -> HeaderBytes + 8 + HashBytes + 2 * NameLength(s.name)
                             + EntryBytes * Len(s.refs)
      [] s.tag = "FILE" -> FileFixedBytes + 2 * NameLength(s.name)
      [] s.tag = "FREE" -> FreeFixedBytes
      [] OTHER -> HeaderBytes

\* The length field written in the image's header.
DeclaredLength(s) == FieldBytes(s) + s.extra

\* The bytes the image occupies in the stream: its fields, and for FILE and
\* FREE the payload or filler the length field announces.
Extent(s) ==
    IF s.tag \in {"FILE", "FREE"} THEN FieldBytes(s) + Max(s.extra, 0)
    ELSE FieldBytes(s)

RECURSIVE StartOf(_, _)
StartOf(shapes, i) ==
    IF i <= 1 THEN 0 ELSE StartOf(shapes, i - 1) + Extent(shapes[i - 1])

\* The offset an image index stands for.
TargetOffset(shapes, t) == StartOf(shapes, Min(t, Len(shapes) + 1))

\* The stream of the shapes laid back to back, its last `cut` bytes missing.
Stream(shapes, cut) ==
    [ size |-> Max(StartOf(shapes, Len(shapes) + 1) - cut, 0),
      imgs |-> [ i \in 1..Len(shapes) |->
                  [ at      |-> StartOf(shapes, i),
                    tag     |-> shapes[i].tag,
                    length  |-> DeclaredLength(shapes[i]),
                    name    |-> shapes[i].name,
                    offsets |-> [ k \in 1..Len(shapes[i].refs) |->
                                    TargetOffset(shapes, shapes[i].refs[k]) ] ] ] ]

\* The image that starts at offset o, or 0.
ImageAt(buf, o) ==
    IF \E i \in 1..Len(buf.imgs) : buf.imgs[i].at = o
    THEN CHOOSE i \in 1..Len(buf.imgs) : buf.imgs[i].at = o
    ELSE 0

-----------------------------------------------------------------------------
(* The buffer's cursor (io.BytesIO).                                       *)

\* read(n) with the cursor at c: the number of bytes returned.
ReadBytes(buf, c, n) == Max(Min(n, buf.size - c), 0)

\* seek(n, os.SEEK_CUR) with the cursor at c: the new cursor.
SeekCur(c, n) == Max(c + n, 0)

-----------------------------------------------------------------------------
(* The record decoders. Each returns [err, pos, rec]: the exception raised *)
(* or "none", the cursor after the record, and the record object.          *)

Record(tag, length, off) ==
    [ tag |-> tag, length |-> length, offset |-> off, name |-> <<>>,
      offsets |-> <<>>, entries |-> <<>>, data_start |-> 0, data_length |-> 0 ]

Raise(e, c) == [ err |-> e, pos |-> c, rec |-> Record("", 0, 0) ]

\* GGPKRecord.read: the count, then count offsets of 8 bytes each.
GGPKRecord_read(buf, img, rec, c) ==
    LET count == Len(img.offsets)
    IN  IF c + 4 + OffsetBytes * count > buf.size
        THEN Raise("struct.error", buf.size)
        ELSE [ err |-> "none", pos |-> c + 4 + OffsetBytes * count,
               rec |-> [rec EXCEPT !.offsets = img.offsets] ]

\* The name of 2 * (name_length - 1) bytes, cut short at the end of the stream.
\* Returns [odd, name, pos].
ReadName(buf, img, c) ==
    LET got == ReadBytes(buf, c, 2 * (NameLength(img.name) - 1))
    IN  [ odd |-> got % 2 = 1,
          name |-> SubSeq(img.name, 1, got \div 2),
          pos |-> c + got ]

\* DirectoryRecord.read
DirectoryRecord_read(buf, img, rec, c) ==
    IF c + 8 > buf.size THEN Raise("struct.error", buf.size)
    ELSE
    LET afterHash == c + 8 + ReadBytes(buf, c + 8, HashBytes)
        nm == ReadName(buf, img, afterHash)
        afterNull == SeekCur(nm.pos, 2)
        count == Len(img.offsets)
    IN  IF nm.odd THEN Raise("UnicodeDecodeError", nm.pos)
        ELSE IF count > 0 /\ afterNull + EntryBytes * count > buf.size
        THEN Raise("struct.error", Max(afterNull, buf.size))
        ELSE [ err |-> "none", pos |-> afterNull + EntryBytes * count,
               rec |-> [rec EXCEPT
                          !.name = nm.name,
                          !.entries = [ k \in 1..count |->
                                         [hash |-> k, offset |-> img.offsets[k]] ] ] ]

\* FileRecord.read: the payload is skipped with a relative seek.
FileRecord_read(buf, img, rec, c) ==
    IF c + 4 > buf.size THEN Raise("struct.error", buf.size)
    ELSE
    LET afterHash == c + 4 + ReadBytes(buf, c + 4, HashBytes)
        nm == ReadName(buf, img, afterHash)
        data_start == SeekCur(nm.pos, 2)
        data_length == rec.length - FileFixedBytes - NameLength(img.name) * 2
    IN  IF nm.odd THEN Raise("UnicodeDecodeError", nm.pos)
        ELSE [ err |-> "none", pos |-> SeekCur(data_start, data_length),
               rec |-> [rec EXCEPT !.name = nm.name,
                                   !.data_start = data_start,
                                   !.data_length = data_length] ]

\* FreeRecord.read: next_free, then the filler is skipped with a relative seek.
FreeRecord_read(buf, img, rec, c) ==
    IF c + 8 > buf.size THEN Raise("struct.error", buf.size)
    ELSE [ err |-> "none", pos |-> SeekCur(c + 8, rec.length - FreeFixedBytes),
           rec |-> rec ]

\* GGPKFile._read_record with the cursor at offset o. The bytes at an offset
\* where no image starts (inside another image, or in padding) spell no tag.
_read_record(buf, o) ==
    LET i == ImageAt(buf, o)
    IN  IF o + 4 > buf.size THEN Raise("struct.error", buf.size)
        ELSE IF o + HeaderBytes > buf.size \/ i = 0 THEN Raise("ValueError", o + 4)
        ELSE
        LET img == buf.imgs[i]
            rec == Record(img.tag, img.length, o)
            c == o + HeaderBytes
        IN  CASE img.tag = "FILE" -> FileRecord_read(buf, img, rec, c)
              [] img.tag = "FREE" -> FreeRecord_read(buf, img, rec, c)
              [] img.tag = "PDIR" -> DirectoryRecord_read(buf, img, rec, c)
              [] img.tag = "GGPK" -> GGPKRecord_read(buf, img, rec, c)
              [] OTHER -> Raise("ValueError", c)

-----------------------------------------------------------------------------
(* GGPKFile.directory_build (called with parent = None).                   *)

IsDirectoryRecord(rec) == rec.tag = "PDIR"
IsFileRecord(rec) == rec.tag = "FILE"

\* The loop over ggpkrecord.offsets from its k-th element on, and the test
\* after it. Returns [err, root]: root is the offset of the record chosen.
RECURSIVE FindRootRecord(_, _, _)
FindRootRecord(tbl, offs, k) ==
    IF k > Len(offs)
    THEN \* the loop ran out: `record` is the last one looked at, if any
         IF Len(offs) = 0
         THEN [err |-> "UnboundLocalError", root |-> 0]
         ELSE [err |-> "ParserError", root |-> 0]
    ELSE IF offs[k] \notin DOMAIN tbl THEN [err |-> "KeyError", root |-> 0]
    ELSE IF IsDirectoryRecord(tbl[offs[k]]) THEN [err |-> "none", root |-> offs[k]]
    ELSE FindRootRecord(tbl, offs, k + 1)

\* The start of directory_build, up to the work list's first filling.
BuildRoot(tbl) ==
    IF DOMAIN tbl = {} THEN [err |-> "ParserError", root |-> 0]
    ELSE IF 0 \notin DOMAIN tbl THEN [err |-> "KeyError", root |-> 0]
    ELSE IF tbl[0].tag # "GGPK" THEN [err |-> "AttributeError", root |-> 0]
    ELSE FindRootRecord(tbl, tbl[0].offsets, 1)

DirectoryNode(record, hash, parent) ==
    [ record |-> record, hash |-> hash, parent |-> parent, children |-> <<>> ]

\* l.append((entry.offset, entry.hash, node)) for every entry of the record.
PushEntries(lst, entries, node) ==
    lst \o [ k \in 1..Len(entries) |->
               [offset |-> entries[k].offset, hash |-> entries[k].hash, parent |-> node] ]

\* The work list loop without the lookup failing: an entry whose offset is
\* no key is dropped.
BuildPop_SkipMissing(tbl, ns, lst) ==
    LET top == lst[Len(lst)]
        rest == SubSeq(lst, 1, Len(lst) - 1)
        id == Len(ns) + 1
    IN  IF top.offset \notin DOMAIN tbl
        THEN [ err |-> "none", nodes |-> ns, l |-> rest ]
        ELSE [ err |-> "none",
               nodes |-> Append([ns EXCEPT ![top.parent].children = Append(@, id)],
                                DirectoryNode(top.offset, top.hash, top.parent)),
               l |-> IF IsDirectoryRecord(tbl[top.offset])
                     THEN PushEntries(rest, tbl[top.offset].entries, id)
                     ELSE rest ]

\* One turn of the work list loop on a list that is not empty: l.pop(), the
\* table lookup, the new node appended to its parent's children, the entries
\* of a directory record pushed. Returns [err, nodes, l].
BuildPop(tbl, ns, lst) ==
    LET top == lst[Len(lst)]
        rest == SubSeq(lst, 1, Len(lst) - 1)
        id == Len(ns) + 1
    IN  IF top.offset \notin DOMAIN tbl
        THEN [ err |-> "KeyError", nodes |-> ns, l |-> rest ]
        ELSE [ err |-> "none",
               nodes |-> Append([ns EXCEPT ![top.parent].children = Append(@, id)],
                                DirectoryNode(top.offset, top.hash, top.parent)),
               l |-> IF IsDirectoryRecord(tbl[top.offset])
                     THEN PushEntries(rest, tbl[top.offset].entries, id)
                     ELSE rest ]

-----------------------------------------------------------------------------
(* DirectoryNode: names and path lookup.                                   *)

ROOT == <<"R", "O", "O", "T">>
Sep == "/"

\* Only PDIR and FILE records have a name (MixinRecord).
HasName(rec) == rec.tag \in {"PDIR", "FILE"}

\* DirectoryNode._get_name
_get_name(tbl, node) ==
    IF tbl[node.record].name # <<>> THEN tbl[node.record].name ELSE ROOT

\* The last index of the separator in p, 0 if there is none (str.rfind + 1).
RECURSIVE LastSep(_, _)
LastSep(p, i) == IF i = 0 \/ p[i] = Sep THEN i ELSE LastSep(p, i - 1)

\* str.rstrip('/')
RECURSIVE RStrip(_)
RStrip(p) ==
    IF p # <<>> /\ p[Len(p)] = Sep THEN RStrip(SubSeq(p, 1, Len(p) - 1)) ELSE p

\* os.path.split (posixpath): [head, tail].
os_path_split(p) ==
    LET i == LastSep(p, Len(p))
        head == SubSeq(p, 1, i)
    IN  [ head |-> IF \E k \in 1..Len(head) : head[k] # Sep THEN RStrip(head) ELSE head,
          tail |-> SubSeq(p, i + 1, Len(p)) ]

\* The first loop with path.append(result) for path.insert(0, result).
RECURSIVE SplitPath_Appended(_)
SplitPath_Appended(item) ==
    IF item = <<>> THEN <<>>
    ELSE LET s == os_path_split(item) IN <<s.tail>> \o SplitPath_Appended(s.head)

\* __getitem__, first loop: the segments of item, in order. (A path that
\* starts with the separator never leaves this loop; no such path is passed.)
RECURSIVE SplitPath(_)
SplitPath(item) ==
    IF item = <<>> THEN <<>>
    ELSE LET s == os_path_split(item) IN Append(SplitPath(s.head), s.tail)

\* The for loop over obj.children: [err, node], node = NoNode for no match.
RECURSIVE FindChild(_, _, _, _, _)
FindChild(ns, tbl, children, item, k) ==
    IF k > Len(children) THEN [err |-> "none", node |-> NoNode]
    ELSE IF ~HasName(tbl[ns[children[k]].record])
    THEN [err |-> "AttributeError", node |-> NoNode]
    ELSE IF _get_name(tbl, ns[children[k]]) = item
    THEN [err |-> "none", node |-> children[k]]
    ELSE FindChild(ns, tbl, children, item, k + 1)

\* __getitem__, second loop.
RECURSIVE WalkPath(_, _, _, _)
WalkPath(ns, tbl, obj, path) ==
    IF path = <<>> THEN [err |-> "none", node |-> obj]
    ELSE LET r == FindChild(ns, tbl, ns[obj].children, Head(path), 1)
         IN  IF r.err # "none" \/ r.node = NoNode THEN r
             ELSE WalkPath(ns, tbl, r.node, Tail(path))

\* DirectoryNode.__getitem__
DirectoryNode_getitem(ns, tbl, self, item) == WalkPath(ns, tbl, self, SplitPath(item))

-----------------------------------------------------------------------------
(* DirectoryNode.search. A pattern is [anchor, lit]: the regular           *)
(* expression ^lit or lit, lit a literal string.                           *)

IsPrefix(lit, s) == Len(lit) <= Len(s) /\ SubSeq(s, 1, Len(lit)) = lit

\* re.search(regex, s) for these patterns
re_search(pattern, s) ==
    IF pattern.anchor THEN IsPrefix(pattern.lit, s)
    ELSE \E i \in 0..Len(s) : IsPrefix(pattern.lit, SubSeq(s, i + 1, Len(s)))

\* The while loop with the parentheses around the two kind tests left out:
\* the pattern is then tested for directories only.
RECURSIVE SearchLoop_NoParens(_, _, _, _, _, _, _)
SearchLoop_NoParens(ns, tbl, q, found, pattern, search_files, search_directories) ==
    IF q = <<>> THEN found
    ELSE LET node == q[Len(q)]
             rec == tbl[ns[node].record]
             hit == \/ (search_files /\ IsFileRecord(rec))
                    \/ /\ search_directories /\ IsDirectoryRecord(rec)
                       /\ re_search(pattern, _get_name(tbl, ns[node]))
         IN  SearchLoop_NoParens(ns, tbl, SubSeq(q, 1, Len(q) - 1) \o ns[node].children,
                                 IF hit THEN Append(found, node) ELSE found,
                                 pattern, search_files, search_directories)

\* The while loop of search over the stack q; found is `nodes`.
RECURSIVE SearchLoop(_, _, _, _, _, _, _)
SearchLoop(ns, tbl, q, found, pattern, search_files, search_directories) ==
    IF q = <<>> THEN found
    ELSE LET node == q[Len(q)]
             rec == tbl[ns[node].record]
             hit == /\ \/ (search_files /\ IsFileRecord(rec))
                       \/ (search_directories /\ IsDirectoryRecord(rec))
                    /\ re_search(pattern, _get_name(tbl, ns[node]))
         IN  SearchLoop(ns, tbl, SubSeq(q, 1, Len(q) - 1) \o ns[node].children,
                        IF hit THEN Append(found, node) ELSE found,
                        pattern, search_files, search_directories)

search(ns, tbl, self, pattern, search_files, search_directories) ==
    SearchLoop(ns, tbl, <<self>>, <<>>, pattern, search_files, search_directories)

-----------------------------------------------------------------------------
(* DirectoryNode.get_parent                                                *)

\* The while loop: [node, nodes] when it is left.
RECURSIVE ParentLoop(_, _, _, _, _, _)
ParentLoop(ns, node, n, stop_at, make_list, acc) ==
    IF n = 0 \/ ns[node].parent = NoNode \/ node = stop_at
    THEN [node |-> node, nodes |-> acc]
    ELSE ParentLoop(ns, ns[node].parent, n - 1, stop_at, make_list,
                    IF make_list THEN <<node>> \o acc ELSE acc)

\* Returns [node, list]: the list when make_list, else the node.
get_parent(ns, self, n, stop_at, make_list) ==
    LET r == ParentLoop(ns, self, n, stop_at, make_list, <<>>)
    IN  IF make_list THEN [node |-> NoNode, list |-> r.nodes]
        ELSE [node |-> r.node, list |-> <<>>]

-----------------------------------------------------------------------------
(* The byte streams the container is given.                                *)

Shape(tag, name, refs, extra) ==
    [ tag |-> tag, name |-> name, refs |-> refs, extra |-> extra ]

SeqsUpTo(S, n) == UNION { [1..k -> S] : k \in 0..n }

\* Streams of up to MaxScan images that vary the declared lengths and the
\* truncation: GGPK and PDIR images that declare their own size or 16 bytes
\* more; FILE images with a payload of 0 or 8 bytes, or that declare length 0;
\* FREE images with a filler of 0 or 8 bytes, or that declare length 8 (less
\* than the fixed fields), 0 or -16; an image with an unknown tag; the last
\* 0, 3 or 8 bytes of the stream cut off.
ScanImages ==
    { Shape("GGPK", <<>>, r, x) : r \in { <<>>, <<2>> }, x \in {0, 16} }
    \cup { Shape("PDIR", <<"a">>, r, x) : r \in { <<>>, <<3>> }, x \in {0, 16} }
    \cup { Shape("FILE", <<"a">>, <<>>, x) : x \in {0 - 48, 0, 8} }
    \cup { Shape("FREE", <<>>, <<>>, x) : x \in {0 - 32, 0 - 16, 0 - 8, 0, 8} }
    \cup { Shape("JUNK", <<>>, <<>>, 0) }

Cuts == {0, 3, 8}

ScanStreams ==
    { Stream(s, cut) : s \in UNION { [1..k -> ScanImages] : k \in 1..MaxScan },
                       cut \in Cuts }

\* A GGPK image first, then the records t.
Archive(refs, t) == Stream(<<Shape("GGPK", <<>>, refs, 0)>> \o t, 0)

\* Streams that vary the GGPK record's child offsets, over up to MaxRec
\* records without entries. An index past the last image is an offset where
\* no record starts.
LeafRecords ==
    { Shape("PDIR", <<>>, <<>>, 0), Shape("FILE", <<"a">>, <<>>, 0),
      Shape("FREE", <<>>, <<>>, 0) }

RootStreams ==
    { Archive(r, t) : r \in SeqsUpTo(1..(MaxRec + 1), MaxEntries),
                      t \in SeqsUpTo(LeafRecords, MaxRec) }

\* Streams that vary the directory entries, over up to MaxRec records with
\* at most `budget` entries together: an entry may reference any image
\* (itself, an ancestor, the GGPK record, a free record, an image referenced
\* already) or an offset where no record starts.
RefRecords(budget) ==
    { Shape("FILE", <<"a">>, <<>>, 0), Shape("FREE", <<>>, <<>>, 0) }
    \cup { Shape("PDIR", <<>>, r, 0) :
             r \in SeqsUpTo(1..(MaxRec + 1), Min(MaxEntries, budget)) }

RECURSIVE RefTails(_, _)
RefTails(n, budget) ==
    IF n = 0 THEN { <<>> }
    ELSE { <<>> } \cup
         UNION { { <<r>> \o t : t \in RefTails(n - 1, budget - Len(r.refs)) } :
                   r \in RefRecords(budget) }

RefStreams == { Archive(<<2>>, t) : t \in RefTails(MaxRec, MaxRefs) }

\* Streams that vary the names, over up to MaxTree directory and file
\* records that form a hierarchy: the first record is a directory, every
\* later record is the next entry of one earlier directory record.
Names == { <<>>, <<"a">>, <<"b">> }

NameRecords ==
    { Shape("FILE", nm, <<>>, 4) : nm \in Names \ { <<>> } }
    \cup { Shape("PDIR", nm, <<>>, 0) : nm \in Names }

AddEntry(t, p) == [ t EXCEPT ![p].refs = @ \o <<Len(t) + 2>> ]

RECURSIVE NameTrees(_)
NameTrees(n) ==
    IF n = 1 THEN { <<Shape("PDIR", nm, <<>>, 0)>> : nm \in Names }
    ELSE UNION { { Append(AddEntry(t, p), r) :
                     r \in NameRecords,
                     p \in { q \in 1..Len(t) : /\ t[q].tag = "PDIR"
                                               /\ Len(t[q].refs) < MaxEntries } } :
                   t \in NameTrees(n - 1) }

NameStreams == UNION { { Archive(<<2>>, t) : t \in NameTrees(n) } : n \in 1..MaxTree }

Streams == ScanStreams \cup RootStreams \cup RefStreams \cup NameStreams

-----------------------------------------------------------------------------
(* The container. The navigation calls change nothing of the container or  *)
(* the tree, so a run makes one of them: `call` records it.                *)

Pattern(anchor, lit) == [ anchor |-> anchor, lit |-> lit ]

\* ^a, b, O
Patterns == { Pattern(TRUE, <<"a">>), Pattern(FALSE, <<"b">>), Pattern(FALSE, <<"O">>) }

NoCall ==
    [ op |-> "none", self |-> NoNode, item |-> <<>>, n |-> 0, stop_at |-> NoNode,
      make_list |-> FALSE, pattern |-> Pattern(FALSE, <<>>), search_files |-> FALSE,
      search_directories |-> FALSE, node |-> NoNode, list |-> <<>>, err |-> "none" ]

\* GGPKFile.__init__
Init ==
    /\ buffer \in Streams
    /\ pc = "new"
    /\ offset = 0
    /\ recs = EmptyMap
    /\ records = EmptyMap
    /\ error = "none"
    /\ directory = NoNode
    /\ nodes = <<>>
    /\ l = <<>>
    /\ call = NoCall

\* _read, up to the loop.
Read ==
    /\ pc = "new"
    /\ pc' = "reading"
    /\ recs' = EmptyMap
    /\ offset' = 0
    /\ UNCHANGED <<buffer, records, error, directory, nodes, l, call>>

\* _read: one test of the loop condition; the loop body (_read_record and
\* offset = buffer.tell()) or, when the loop is left, self.records = records.
ReadRecord ==
    /\ pc = "reading"
    /\ IF offset < buffer.size
       THEN LET r == _read_record(buffer, offset)
            IN  IF r.err # "none"
                THEN /\ pc' = "readfail"
                     /\ error' = r.err
                     /\ UNCHANGED <<recs, offset, records>>
                ELSE /\ recs' = (offset :> r.rec) @@ recs
                     /\ offset' = r.pos
                     /\ UNCHANGED <<pc, error, records>>
       ELSE /\ records' = recs
            /\ pc' = "read"
            /\ UNCHANGED <<recs, offset, error>>
    /\ UNCHANGED <<buffer, directory, nodes, l, call>>

\* directory_build(parent=None), up to the work list loop.
DirectoryBuild ==
    /\ pc \in {"read", "readfail"}
    /\ LET r == BuildRoot(records)
       IN  IF r.err # "none"
           THEN /\ pc' = "buildfail"
                /\ error' = r.err
                /\ UNCHANGED <<directory, nodes, l>>
           ELSE /\ nodes' = <<DirectoryNode(r.root, NoHash, NoNode)>>
                /\ directory' = 1
                /\ l' = PushEntries(<<>>, records[r.root].entries, 1)
                /\ pc' = "building"
                /\ error' = "none"
    /\ UNCHANGED <<buffer, offset, recs, records, call>>

\* directory_build: one turn of the work list loop; an empty list ends the
\* call (the IndexError of l.pop() is caught). A build that would create more
\* than MaxNodes nodes is followed no further.
BuildStep ==
    /\ pc = "building"
    /\ IF l = <<>>
       THEN /\ pc' = "built"
            /\ UNCHANGED <<nodes, l, error>>
       ELSE LET r == BuildPop(records, nodes, l)
            IN  /\ Len(r.nodes) <= MaxNodes
                /\ nodes' = r.nodes
                /\ l' = r.l
                /\ IF r.err # "none"
                   THEN pc' = "buildfail" /\ error' = r.err
                   ELSE UNCHANGED <<pc, error>>
    /\ UNCHANGED <<buffer, offset, recs, records, directory, call>>

NodeIds == 1..Len(nodes)

\* Every node from n up to the root wraps a record that has a name.
RECURSIVE AllNamed(_)
AllNamed(n) ==
    HasName(records[nodes[n].record])
    /\ (nodes[n].parent # NoNode => AllNamed(nodes[n].parent))

\* The display names from below the root down to node n, joined by "/".
RECURSIVE PathOf(_)
PathOf(n) ==
    IF nodes[n].parent = NoNode THEN <<>>
    ELSE IF nodes[nodes[n].parent].parent = NoNode THEN _get_name(records, nodes[n])
    ELSE PathOf(nodes[n].parent) \o <<Sep>> \o _get_name(records, nodes[n])

\* The paths looked up: the path of every node, and one no node has.
Items == { PathOf(n) : n \in { m \in NodeIds : AllNamed(m) } } \cup { <<"x">> }

\* node[item], for a node of the built tree
GetItem(self, item) ==
    /\ pc = "built"
    /\ call = NoCall
    /\ LET r == DirectoryNode_getitem(nodes, records, self, item)
       IN  call' = [NoCall EXCEPT !.op = "getitem", !.self = self, !.item = item,
                                  !.node = r.node, !.err = r.err]
    /\ UNCHANGED <<buffer, pc, offset, recs, records, error, directory, nodes, l>>

\* container[item]
ContainerGetItem(item) ==
    /\ pc \in {"read", "readfail", "built", "buildfail"}
    /\ call = NoCall
    /\ LET r == IF directory = NoNode THEN [err |-> "ValueError", node |-> NoNode]
                ELSE IF item = ROOT THEN [err |-> "none", node |-> directory]
                ELSE DirectoryNode_getitem(nodes, records, directory, item)
       IN  call' = [NoCall EXCEPT !.op = "container", !.item = item,
                                  !.node = r.node, !.err = r.err]
    /\ UNCHANGED <<buffer, pc, offset, recs, records, error, directory, nodes, l>>

\* node.search(regex, search_files, search_directories)
Search(self, pattern, sf, sd) ==
    /\ pc = "built"
    /\ call = NoCall
    /\ call' = [NoCall EXCEPT !.op = "search", !.self = self, !.pattern = pattern,
                              !.search_files = sf, !.search_directories = sd,
                              !.list = search(nodes, records, self, pattern, sf, sd)]
    /\ UNCHANGED <<buffer, pc, offset, recs, records, error, directory, nodes, l>>

\* The k-th parent of node t (t itself for k = 0; the root's parent is the root).
RECURSIVE Ancestor(_, _)
Ancestor(t, k) ==
    IF k = 0 \/ nodes[t].parent = NoNode THEN t ELSE Ancestor(nodes[t].parent, k - 1)

\* The number of parents between node t and the root.
RECURSIVE Depth(_)
Depth(t) == IF nodes[t].parent = NoNode THEN 0 ELSE 1 + Depth(nodes[t].parent)

\* node.get_parent(n, stop_at, make_list)
GetParent(self, n, stop_at, make_list) ==
    /\ pc = "built"
    /\ call = NoCall
    /\ LET r == get_parent(nodes, self, n, stop_at, make_list)
       IN  call' = [NoCall EXCEPT !.op = "get_parent", !.self = self, !.n = n,
                                  !.stop_at = stop_at, !.make_list = make_list,
                                  !.node = r.node, !.list = r.list]
    /\ UNCHANGED <<buffer, pc, offset, recs, records, error, directory, nodes, l>>

Next ==
    \/ Read
    \/ ReadRecord
    \/ DirectoryBuild
    \/ BuildStep
    \/ \E self \in NodeIds, item \in Items : GetItem(self, item)
    \/ \E item \in Items \cup {ROOT} : ContainerGetItem(item)
    \/ \E self \in NodeIds, pattern \in Patterns, sf \in BOOLEAN, sd \in BOOLEAN :
          Search(self, pattern, sf, sd)
    \/ \E self \in NodeIds, stop_at \in {NoNode} \cup NodeIds, make_list \in BOOLEAN :
          \E n \in (0 - 1)..(Depth(self) + 1) : GetParent(self, n, stop_at, make_list)

Spec == Init /\ [][Next]_vars

-----------------------------------------------------------------------------
(* Notions the claims are stated with.                                     *)

\* The offsets reached from o by adding each record's declared length, down
\* to the end of the stream; -1 is among them when the stream is not made of
\* back-to-back records of the four kinds (no record starts at a position
\* reached, a length is not positive, or the last record overruns the end).
RECURSIVE DeclaredChain(_, _)
DeclaredChain(buf, o) ==
    IF o = buf.size THEN {}
    ELSE IF o > buf.size \/ ImageAt(buf, o) = 0 THEN {0 - 1}
    ELSE LET img == buf.imgs[ImageAt(buf, o)]
         IN  IF img.tag \notin Tags \/ img.length <= 0 THEN {0 - 1}
             ELSE {o} \cup DeclaredChain(buf, o + img.length)

BackToBack(buf) == (0 - 1) \notin DeclaredChain(buf, 0)

ProperAncestors(t) == { Ancestor(t, k) : k \in 1..Depth(t) } \ {t}

\* The nodes below s, s included, by the parent links.
Subtree(s) == { t \in NodeIds : s \in (ProperAncestors(t) \cup {t}) }

SeqToSet(q) == { q[i] : i \in 1..Len(q) }
NoDuplicates(q) == \A i, j \in 1..Len(q) : q[i] = q[j] => i = j

\* The first child offset of the GGPK record that names a directory record,
\* -1 if there is none.
FirstDirectoryOffset ==
    LET offs == records[0].offsets
        dirs == { k \in 1..Len(offs) :
                    offs[k] \in DOMAIN records /\ IsDirectoryRecord(records[offs[k]]) }
    IN  IF dirs = {} THEN 0 - 1
        ELSE offs[CHOOSE k \in dirs : \A j \in dirs : k <= j]

HasRootRecord == 0 \in DOMAIN records /\ records[0].tag = "GGPK"

\* A well-formed tree: every node wraps a directory or file record, no name
\* holds the path separator, and no two children of a node show the same name.
WellFormed ==
    /\ \A t \in NodeIds :
          /\ HasName(records[nodes[t].record])
          /\ Sep \notin SeqToSet(records[nodes[t].record].name)
    /\ \A t, u \in NodeIds :
          (t # u /\ nodes[t].parent = nodes[u].parent /\ nodes[t].parent # NoNode)
              => _get_name(records, nodes[t]) # _get_name(records, nodes[u])

-----------------------------------------------------------------------------
(* The claims.                                                             *)

\* C1: for a stream made of back-to-back records, the keys of the table a
\* scan produces are exactly the running sums of the declared lengths, and
\* the record under key k has offset k.
C1_ScanFollowsDeclaredLengths ==
    (pc = "read" /\ BackToBack(buffer)) =>
        /\ DOMAIN records = DeclaredChain(buffer, 0)
        /\ \A k \in DOMAIN records : records[k].offset = k

\* C2: a scan that decodes a record whose declared length is larger than the
\* bytes left from the record's start fails and produces no table.
C2_TruncatedRecordFails ==
    pc = "read" =>
        \A k \in DOMAIN records : records[k].length <= buffer.size - k

\* C3: the build never makes a node for an offset that one of the node's
\* ancestors wraps already (it fails with CyclicReference instead).
C3_NoAncestorRevisit ==
    \A t \in NodeIds :
        \A a \in ProperAncestors(t) : nodes[a].record # nodes[t].record

C5_NoPartialState ==
    /\ pc = "readfail" => records = EmptyMap
    /\ pc = "buildfail" => directory = NoNode
    /\ (pc = "buildfail" /\ call.op = "container") => call.err = "ValueError"

\* C6: a build takes the first child offset of the root record that names a
\* directory record as the tree root, and fails with ParserError if none of
\* them (or none at all) does.
C6_RootSelection ==
    (HasRootRecord /\ pc \in {"building", "built", "buildfail"}) =>
        IF FirstDirectoryOffset = 0 - 1
        THEN pc = "buildfail" /\ error = "ParserError"
        ELSE directory # NoNode /\ nodes[directory].record = FirstDirectoryOffset

\* C7: in the tree built from a well-formed archive, looking up from the root
\* the path of a node returns that node (the empty path returns the root).
C7_LookupFindsNode ==
    (pc = "built" /\ WellFormed /\ call.op = "getitem" /\ call.self = directory) =>
        \A t \in NodeIds :
            call.item = PathOf(t) => (call.err = "none" /\ call.node = t)

\* A lookup from the root of the path of a node two levels down.
C7_Witness ==
    /\ pc = "built" /\ WellFormed /\ call.op = "getitem" /\ call.self = directory
    /\ \E t \in NodeIds :
          /\ Depth(t) = 2
          /\ call.item = PathOf(t)
          /\ call.node = t

\* C8: get_parent with make_list returns the nodes from the stopping
\* ancestor (the n-th parent, the root or stop_at, whichever comes first)
\* down to self, both included; without make_list it returns that ancestor.
C8_GetParentList ==
    call.op = "get_parent" =>
        LET stops == { k \in 0..Depth(call.self) :
                         \/ k = call.n
                         \/ k = Depth(call.self)
                         \/ Ancestor(call.self, k) = call.stop_at }
            k == CHOOSE i \in stops : \A j \in stops : i <= j
        IN  IF call.make_list
            THEN call.list = [ i \in 1..(k + 1) |-> Ancestor(call.self, k + 1 - i) ]
            ELSE call.node = Ancestor(call.self, k)

\* C9: in a built tree the root is the one node without a parent, a node
\* shows the name "ROOT" exactly when it is the root, and every other node
\* shows its record's name.
C9_RootNameAndParent ==
    (pc = "built" /\ \A t \in NodeIds : HasName(records[nodes[t].record])) =>
        \A t \in NodeIds :
            /\ (nodes[t].parent = NoNode) <=> (t = directory)
            /\ (_get_name(records, nodes[t]) = ROOT) <=> (t = directory)
            /\ t # directory =>
                  _get_name(records, nodes[t]) = records[nodes[t].record].name

\* C10: search returns, each once, exactly the nodes of the subtree of self
\* (self included) whose record kind the flags enable and whose display name
\* the pattern matches.
C10_SearchExact ==
    call.op = "search" =>
        /\ NoDuplicates(call.list)
        /\ SeqToSet(call.list) =
              { t \in Subtree(call.self) :
                  /\ \/ call.search_files /\ IsFileRecord(records[nodes[t].record])
                     \/ call.search_directories
                          /\ IsDirectoryRecord(records[nodes[t].record])
                  /\ re_search(call.pattern, _get_name(records, nodes[t])) }

\* A files-only search from the root that returned two files and left out a
\* directory whose name matches.
C10_Witness ==
    /\ call.op = "search" /\ call.self = directory
    /\ call.search_files /\ ~call.search_directories
    /\ Len(call.list) >= 2
    /\ \E t \in NodeIds \ SeqToSet(call.list) :
          /\ IsDirectoryRecord(records[nodes[t].record])
          /\ re_search(call.pattern, _get_name(records, nodes[t]))

\* C11: every node of a tree directory_build returned wraps a directory
\* record or a file record (an entry that points to a free record or to the
\* GGPK record makes the build fail instead of creating a node).
C11_NodesWrapDirectoryOrFile ==
    pc = "built" =>
        \A t \in NodeIds :
            \/ IsDirectoryRecord(records[nodes[t].record])
            \/ IsFileRecord(records[nodes[t].record])

\* C12: in a finished tree no two nodes wrap the record of the same offset,
\* also when two directory entries reference the same offset.
C12_OffsetVisitedOnce ==
    pc = "built" =>
        \A t, u \in NodeIds : nodes[t].record = nodes[u].record => t = u

\* C13: each iteration of the scan loop either fails with an error or moves
\* the cursor strictly forward, whatever length a record declares (so the
\* scan of a finite stream terminates).
C13_ScanMovesForward ==
    [][ (pc = "reading" /\ offset < buffer.size) =>
            (pc' = "readfail" \/ offset' > offset) ]_vars

====
